---- MODULE Spec2Model ----
(***************************************************************************)
(* Model of the task-batching scheduler `Worker<F>` of app/src/worker.rs.  *)
(*                                                                         *)
(* A worker owns `cnt` and `fut : Vec<Vec<F>>`.  Jobs (futures) are moved  *)
(* into the worker by `push` and are identified here by their 0-based      *)
(* global push index; the output of job i is Output(i).  A run method      *)
(* consumes the worker; four of them spawn one tokio task per lane and     *)
(* join them, run_single_threaded runs chunks of jobs on the caller's task.*)
(* A job may complete or panic; a panic inside a spawned task is caught by *)
(* tokio and turns the task's JoinHandle result into Err(JoinError).       *)
(* Vectors are modelled as sequences, so the 0-based lane index i of the   *)
(* code is element i + 1 here.                                             *)
(***************************************************************************)
EXTENDS Integers, Sequences, FiniteSets, TLC

\* Largest number of lanes a constructor is asked for.
MaxLanes == 3
\* Largest number of jobs pushed before a run method is called.
MaxJobs == 7
\* Largest explicit batch size given to run_single_threaded.
MaxBatch == 3
\* Largest amount and largest balance, in lamports, of a transfer job.
MaxLamports == 3

VARIABLES
    st,        \* caller: "none" | "idle" | "running" | "returned" | "panicked"
    cnt,       \* Worker.cnt
    fut,       \* Worker.fut, a sequence of lanes, each a sequence of jobs
    npush,     \* number of push calls that returned (next global push index)
    mode,      \* run method invoked: "none" | "run" | "collect" | "joined" | "joined_collect" | "single"
    handles,   \* spawned lane tasks: [pc, pos, res], in spawn (= lane) order;
               \* pos counts the jobs of the lane the task has taken (polled) so far
    started,   \* jobs whose future has been polled at least once
    completed, \* jobs whose future returned its output
    faulted,   \* jobs whose future panicked
    nstart,    \* for each job that was started, how many times it was started
    result,    \* Vec returned by a collecting run method
    batch_size, \* argument of run_single_threaded: [some, x] (None: some = FALSE)
    chunks,    \* run_single_threaded: the chunks, each a sequence of jobs
    cidx,      \* run_single_threaded: 0-based index of the chunk the loop is at
    cpos,      \* run_single_threaded: jobs of the chunk that join_all has polled so far
    tpc,       \* transfer job: the await it is at, "none" | "balance" | "blockhash" | "send" | "confirmed" | "finalized" | "done"
    lamports,  \* transfer job: the amount to transfer
    sender_balance, \* transfer job: the balance get_balance returned
    calls,     \* transfer job: the RPC calls made so far, [rpc, ok], in order
    printed    \* transfer job: the lines printed so far, in order

schedulerVars == <<st, cnt, fut, npush, mode, handles, started, completed, faulted,
                   nstart, result, batch_size, chunks, cidx, cpos>>
transferVars == <<tpc, lamports, sender_balance, calls, printed>>

vars == <<schedulerVars, transferVars>>

workerVars == <<cnt, fut, npush>>
jobVars == <<started, completed, faulted, nstart>>
singleVars == <<batch_size, chunks, cidx, cpos>>

----------------------------------------------------------------------------
(* Pure helpers *)

\* The output produced by the job with global push index j.
Output(j) == j

\* `Vec::with_capacity(batches)` followed by `batches` pushes of `Vec::new()`.
EmptyLanes(batches) == [i \in 1..batches |-> <<>>]

\* Variant of TaskIndex that takes the number of jobs pushed so far.
TaskIndexByPushCount(f, c) == npush % c

\* worker.rs:23 -- `self.fut.len() % self.cnt` (only evaluated when c > 0).
TaskIndex(f, c) == Len(f) % c

\* Variant of PushInto that assigns the lane instead of appending to it.
PushIntoOverwrite(f, idx, job) == [f EXCEPT ![idx + 1] = <<job>>]

\* Variant of PushInto that inserts the job at the front of the lane.
PushIntoFront(f, idx, job) == [f EXCEPT ![idx + 1] = <<job>> \o @]

\* Variant of PushInto that stores the job in every lane.
PushIntoEveryLane(f, idx, job) == [l \in 1..Len(f) |-> Append(f[l], job)]

\* worker.rs:24 -- `self.fut[task_index].push(fut)`.
PushInto(f, idx, job) == [f EXCEPT ![idx + 1] = Append(@, job)]

\* Variant of Flatten that keeps only the last join result.
FlattenLast(ss) == IF ss = <<>> THEN <<>> ELSE ss[Len(ss)]

RECURSIVE Flatten(_)
\* The nested `for join_result ... for job_result ... res.push(job_result)`.
Flatten(ss) == IF ss = <<>> THEN <<>> ELSE Head(ss) \o Flatten(Tail(ss))

\* join_all(jobs): one slot per job, in the order given, none done yet.
JoinAllNew(jobs) == [k \in 1..Len(jobs) |-> [done |-> FALSE, out |-> 0]]

\* Variant of JoinAllStore that fills the first slot that is still empty.
JoinAllStoreNextFree(elems, k, out) ==
    LET free == CHOOSE i \in 1..Len(elems) :
                    /\ ~elems[i].done
                    /\ \A j \in 1..(i - 1) : elems[j].done
    IN  [elems EXCEPT ![free] = [done |-> TRUE, out |-> out]]

\* The k-th future given to join_all is ready: its output is kept in slot k.
JoinAllStore(elems, k, out) == [elems EXCEPT ![k] = [done |-> TRUE, out |-> out]]

\* join_all is ready: the outputs are taken out of the slots in slot order.
JoinAllOutput(elems) == [k \in 1..Len(elems) |-> elems[k].out]

\* The jobs stored in a lane, as a set.
LaneJobs(jobs) == {jobs[k] : k \in 1..Len(jobs)}

\* The start counts after each job of `jobs` has been started once more.
Starts(ns, jobs) ==
    [j \in (DOMAIN ns) \cup jobs |->
        (IF j \in DOMAIN ns THEN ns[j] ELSE 0) + (IF j \in jobs THEN 1 ELSE 0)]

\* Option<usize>: None and Some(x).
BatchNone == [some |-> FALSE, x |-> 0]
BatchSome(x) == [some |-> TRUE, x |-> x]

\* Variant of BatchSize whose default is 1 instead of the lane count.
BatchSizeDefaultOne(opt, c) == IF opt.some THEN opt.x ELSE 1

\* worker.rs:38 -- `match batch_size { Some(x) => x, None => self.cnt }`.
BatchSize(opt, c) == IF opt.some THEN opt.x ELSE c

\* Variant of ChunksCount that always adds the chunk for the remainder.
ChunksCountAlwaysTail(n, b) == (n \div b) + 1

\* Variant of ChunksCount that forgets the chunk for the remainder.
ChunksCountFloor(n, b) == n \div b

\* Variant of RemainderPanics for a chunking test `fut_count < batch_size`.
RemainderPanicsStrict(n, b) == n >= b /\ b = 0

\* worker.rs:41-44 -- `fut_count % batch_size` is evaluated when
\* fut_count > batch_size, and panics when batch_size = 0.
RemainderPanics(n, b) == n > b /\ b = 0

\* worker.rs:44-47 -- fut_count / batch_size, plus one if there is a remainder
\* (only evaluated when b > 0).
ChunksCount(n, b) == (n \div b) + (IF n % b > 0 THEN 1 ELSE 0)

\* Variant of ChunkIndex that divides instead of taking the remainder.
ChunkIndexDiv(i, count) == i \div count

\* worker.rs:53 -- `i % chunks_count`.
ChunkIndex(i, count) == i % count

RECURSIVE Distribute(_, _, _)
\* worker.rs:52-54 -- the enumerate loop, from flattened index i on.
Distribute(flat, i, cs) ==
    IF i = Len(flat) THEN cs
    ELSE Distribute(flat, i + 1,
                    [cs EXCEPT ![ChunkIndex(i, Len(cs)) + 1] = Append(@, flat[i + 1])])

\* worker.rs:41-56 -- the chunks for batch size b (b > 0 or flat empty).
Chunks(flat, b) ==
    IF Len(flat) <= b THEN <<flat>>
    ELSE Distribute(flat, 0, EmptyLanes(ChunksCount(Len(flat), b)))

Sequential == {"run", "collect"}
Joined == {"joined", "joined_collect"}
Collecting == {"collect", "joined_collect"}

----------------------------------------------------------------------------
Init ==
    /\ st = "none"
    /\ cnt = 0
    /\ fut = <<>>
    /\ npush = 0
    /\ mode = "none"
    /\ handles = <<>>
    /\ started = {}
    /\ completed = {}
    /\ faulted = {}
    /\ nstart = [j \in {} |-> 0]
    /\ result = <<>>
    /\ batch_size = BatchNone
    /\ chunks = <<>>
    /\ cidx = 0
    /\ cpos = 0
    /\ tpc = "none"
    /\ lamports = 0
    /\ sender_balance = 0
    /\ calls = <<>>
    /\ printed = <<>>

\* Worker::with_batches(batches): no check on batches, always returns a worker.
with_batches(batches) ==
    /\ st = "none"
    /\ st' = "idle"
    /\ cnt' = batches
    /\ fut' = EmptyLanes(batches)
    /\ UNCHANGED <<transferVars, npush, mode, handles, jobVars, result, singleVars>>

WithBatches == \E batches \in 0..MaxLanes : with_batches(batches)

\* Worker::new(): with_batches(available_parallelism), which is at least 1.
new == \E parallelism \in 1..MaxLanes : with_batches(parallelism)

\* Worker::push(fut): panics (remainder by zero) when cnt = 0.
push ==
    /\ st = "idle"
    /\ npush < MaxJobs
    /\ IF cnt = 0
       THEN /\ st' = "panicked"
            /\ UNCHANGED <<workerVars>>
       ELSE /\ fut' = PushInto(fut, TaskIndex(fut, cnt), npush)
            /\ npush' = npush + 1
            /\ UNCHANGED <<st, cnt>>
    /\ UNCHANGED <<transferVars, mode, handles, jobVars, result, singleVars>>

\* Variant of Enter that borrows the worker, so that a run method can be
\* entered again after an earlier one returned.
EnterBorrowed(m) ==
    /\ st \in {"idle", "returned"}
    /\ st' = "running"
    /\ mode' = m
    /\ UNCHANGED <<transferVars, workerVars, handles, jobVars, result, singleVars>>

\* A run method is entered: the worker is moved into it.
Enter(m) ==
    /\ st = "idle"
    /\ st' = "running"
    /\ mode' = m
    /\ UNCHANGED <<transferVars, workerVars, handles, jobVars, result, singleVars>>

run == Enter("run")
run_and_collect_results == Enter("collect")
run_all_joined == Enter("joined")
run_all_joined_and_collect_results == Enter("joined_collect")

\* One iteration of `for jobs in self.fut { handles.push(tokio::spawn(..)) }`.
Spawn ==
    /\ st = "running" /\ mode \in Sequential \cup Joined
    /\ Len(handles) < Len(fut)
    /\ handles' = Append(handles, [pc |-> "spawned", pos |-> 0, res |-> <<>>])
    /\ UNCHANGED <<transferVars, st, workerVars, mode, jobVars, result, singleVars>>

----------------------------------------------------------------------------
(* Lane tasks of run / run_and_collect_results:                            *)
(*     for job in jobs { job.await }   /   for job in jobs { res.push(job.await) } *)

\* The job the task of lane l takes next: the one the sequential loop is
\* at, or the one the first poll of join_all polls next.
CurrentJob(l) == fut[l][handles[l].pos + 1]

\* Variant of StartJob that polls every job of the lane at once.
StartJobEager(l) ==
    /\ st = "running" /\ mode \in Sequential
    /\ l \in 1..Len(handles)
    /\ handles[l].pc = "spawned"
    /\ handles[l].pos < Len(fut[l])
    /\ CurrentJob(l) \notin started
    /\ started' = started \cup LaneJobs(fut[l])
    /\ nstart' = Starts(nstart, LaneJobs(fut[l]))
    /\ UNCHANGED <<transferVars, st, workerVars, mode, handles, completed, faulted, result, singleVars>>

\* The loop takes the next job of the lane and polls it for the first time.
StartJob(l) ==
    /\ st = "running" /\ mode \in Sequential
    /\ l \in 1..Len(handles)
    /\ handles[l].pc = "spawned"
    /\ handles[l].pos < Len(fut[l])
    /\ CurrentJob(l) \notin started
    /\ started' = started \cup {CurrentJob(l)}
    /\ nstart' = Starts(nstart, {CurrentJob(l)})
    /\ UNCHANGED <<transferVars, st, workerVars, mode, handles, completed, faulted, result, singleVars>>

\* Variant of SeqAfterAwait that puts the output at the front of res.
SeqAfterAwaitFront(h, job, m) ==
    [h EXCEPT !.pos = @ + 1,
              !.res = IF m = "collect" THEN <<Output(job)>> \o @ ELSE @]

\* The awaited job returns; its output is kept only by the collecting loop.
SeqAfterAwait(h, job, m) ==
    [h EXCEPT !.pos = @ + 1,
              !.res = IF m = "collect" THEN Append(@, Output(job)) ELSE @]

CompleteJob(l) ==
    /\ st = "running" /\ mode \in Sequential
    /\ l \in 1..Len(handles)
    /\ handles[l].pc = "spawned"
    /\ handles[l].pos < Len(fut[l])
    /\ CurrentJob(l) \in started
    /\ completed' = completed \cup {CurrentJob(l)}
    /\ handles' = [handles EXCEPT ![l] = SeqAfterAwait(@, CurrentJob(l), mode)]
    /\ UNCHANGED <<transferVars, st, workerVars, mode, started, nstart, faulted, result, singleVars>>

\* Variant of FaultJob in which the loop goes on to the next job of the lane.
FaultJobContinue(l) ==
    /\ st = "running" /\ mode \in Sequential
    /\ l \in 1..Len(handles)
    /\ handles[l].pc = "spawned"
    /\ handles[l].pos < Len(fut[l])
    /\ CurrentJob(l) \in started
    /\ faulted' = faulted \cup {CurrentJob(l)}
    /\ handles' = [handles EXCEPT ![l].pos = @ + 1]
    /\ UNCHANGED <<transferVars, st, workerVars, mode, started, nstart, completed, result, singleVars>>

\* The awaited job panics: the task unwinds, the rest of the lane is dropped.
FaultJob(l) ==
    /\ st = "running" /\ mode \in Sequential
    /\ l \in 1..Len(handles)
    /\ handles[l].pc = "spawned"
    /\ handles[l].pos < Len(fut[l])
    /\ CurrentJob(l) \in started
    /\ faulted' = faulted \cup {CurrentJob(l)}
    /\ handles' = [handles EXCEPT ![l].pc = "panicked"]
    /\ UNCHANGED <<transferVars, st, workerVars, mode, started, nstart, completed, result, singleVars>>

\* Variant of FinishLane whose loop never ends on a lane without jobs.
FinishLaneNonEmpty(l) ==
    /\ st = "running" /\ mode \in Sequential
    /\ l \in 1..Len(handles)
    /\ handles[l].pc = "spawned"
    /\ handles[l].pos = Len(fut[l])
    /\ fut[l] # <<>>
    /\ handles' = [handles EXCEPT ![l].pc = "finished"]
    /\ UNCHANGED <<transferVars, st, workerVars, mode, jobVars, result, singleVars>>

\* The loop has run out of jobs: the task returns (its res in collect mode).
FinishLane(l) ==
    /\ st = "running" /\ mode \in Sequential
    /\ l \in 1..Len(handles)
    /\ handles[l].pc = "spawned"
    /\ handles[l].pos = Len(fut[l])
    /\ handles' = [handles EXCEPT ![l].pc = "finished"]
    /\ UNCHANGED <<transferVars, st, workerVars, mode, jobVars, result, singleVars>>

----------------------------------------------------------------------------
(* Lane tasks of run_all_joined / run_all_joined_and_collect_results:      *)
(*     join_all(jobs).await                                                *)

\* The task is polled for the first time: `join_all(jobs)` is built, with one
\* empty slot per job of the lane; no job has been polled yet.
JoinAll(l) ==
    /\ st = "running" /\ mode \in Joined
    /\ l \in 1..Len(handles)
    /\ handles[l].pc = "spawned"
    /\ handles' = [handles EXCEPT ![l].pc = "joining",
                                  ![l].res = JoinAllNew(fut[l])]
    /\ UNCHANGED <<transferVars, st, workerVars, mode, jobVars, result, singleVars>>

\* Variant of StartAll in which a job of the lane is polled only once every
\* job ahead of it in the lane has returned.
StartAllFirstOnly(l) ==
    /\ st = "running" /\ mode \in Joined
    /\ l \in 1..Len(handles)
    /\ handles[l].pc = "joining"
    /\ handles[l].pos < Len(fut[l])
    /\ \A k \in 1..handles[l].pos : fut[l][k] \in completed
    /\ started' = started \cup {CurrentJob(l)}
    /\ nstart' = Starts(nstart, {CurrentJob(l)})
    /\ \/ /\ handles' = [handles EXCEPT ![l].pos = @ + 1]
          /\ UNCHANGED <<completed, faulted>>
       \/ /\ completed' = completed \cup {CurrentJob(l)}
          /\ handles' = [handles EXCEPT
                            ![l].pos = @ + 1,
                            ![l].res = JoinAllStore(@, handles[l].pos + 1,
                                                    Output(CurrentJob(l)))]
          /\ UNCHANGED faulted
       \/ /\ faulted' = faulted \cup {CurrentJob(l)}
          /\ handles' = [handles EXCEPT ![l].pc = "panicked"]
          /\ UNCHANGED completed
    /\ UNCHANGED <<transferVars, st, workerVars, mode, result, singleVars>>

\* One step of the first poll of join_all: it polls the jobs of the lane one
\* after the other, in lane order.  The job polled suspends, or returns its
\* output (kept in its slot), or panics: the panic unwinds the task and the
\* jobs behind it are dropped without ever being polled.
StartAll(l) ==
    /\ st = "running" /\ mode \in Joined
    /\ l \in 1..Len(handles)
    /\ handles[l].pc = "joining"
    /\ handles[l].pos < Len(fut[l])
    /\ started' = started \cup {CurrentJob(l)}
    /\ nstart' = Starts(nstart, {CurrentJob(l)})
    /\ \/ /\ handles' = [handles EXCEPT ![l].pos = @ + 1]
          /\ UNCHANGED <<completed, faulted>>
       \/ /\ completed' = completed \cup {CurrentJob(l)}
          /\ handles' = [handles EXCEPT
                            ![l].pos = @ + 1,
                            ![l].res = JoinAllStore(@, handles[l].pos + 1,
                                                    Output(CurrentJob(l)))]
          /\ UNCHANGED faulted
       \/ /\ faulted' = faulted \cup {CurrentJob(l)}
          /\ handles' = [handles EXCEPT ![l].pc = "panicked"]
          /\ UNCHANGED completed
    /\ UNCHANGED <<transferVars, st, workerVars, mode, result, singleVars>>

\* A later poll of join_all (the first one is over): a job that had
\* suspended returns; join_all keeps its output in its slot.
CompleteJoined(l) ==
    /\ st = "running" /\ mode \in Joined
    /\ l \in 1..Len(handles)
    /\ handles[l].pc = "joining"
    /\ handles[l].pos = Len(fut[l])
    /\ \E k \in 1..Len(fut[l]) :
          /\ fut[l][k] \notin completed
          /\ completed' = completed \cup {fut[l][k]}
          /\ handles' = [handles EXCEPT
                            ![l].res = JoinAllStore(@, k, Output(fut[l][k]))]
    /\ UNCHANGED <<transferVars, st, workerVars, mode, started, nstart, faulted, result, singleVars>>

\* A later poll of join_all: a job that had suspended panics; the task
\* unwinds and the lane's other unfinished jobs are dropped.
FaultJoined(l) ==
    /\ st = "running" /\ mode \in Joined
    /\ l \in 1..Len(handles)
    /\ handles[l].pc = "joining"
    /\ handles[l].pos = Len(fut[l])
    /\ \E job \in LaneJobs(fut[l]) \ completed :
          faulted' = faulted \cup {job}
    /\ handles' = [handles EXCEPT ![l].pc = "panicked"]
    /\ UNCHANGED <<transferVars, st, workerVars, mode, started, nstart, completed, result, singleVars>>

\* join_all is ready once every job of the lane returned; it yields the
\* outputs in the order the jobs were given to it.
FinishJoined(l) ==
    /\ st = "running" /\ mode \in Joined
    /\ l \in 1..Len(handles)
    /\ handles[l].pc = "joining"
    /\ handles[l].pos = Len(fut[l])
    /\ LaneJobs(fut[l]) \subseteq completed
    /\ handles' = [handles EXCEPT ![l].pc = "finished",
                                  ![l].res = JoinAllOutput(@)]
    /\ UNCHANGED <<transferVars, st, workerVars, mode, jobVars, result, singleVars>>

----------------------------------------------------------------------------
(* The caller side: `join_all(handles).await` and what follows it.         *)

\* Variant of AllJoined that is also ready as soon as one task has panicked.
AllJoinedFailFast ==
    /\ Len(handles) = Len(fut)
    /\ \/ \A l \in 1..Len(handles) : handles[l].pc \in {"finished", "panicked"}
       \/ \E l \in 1..Len(handles) : handles[l].pc = "panicked"

\* Variant of AllJoined that is ready as soon as one task has ended.
AllJoinedAny ==
    /\ Len(handles) = Len(fut)
    /\ \E l \in 1..Len(handles) : handles[l].pc \in {"finished", "panicked"}

\* join_all(handles) is ready: every lane has been spawned and every task
\* has ended, normally or by panic.
AllJoined ==
    /\ Len(handles) = Len(fut)
    /\ \A l \in 1..Len(handles) : handles[l].pc \in {"finished", "panicked"}

\* The join results in handle order.
JoinResults == [l \in 1..Len(handles) |-> handles[l].res]

\* run / run_all_joined: the join results are discarded, Err or not.
ReturnUnit ==
    /\ st = "running" /\ mode \in {"run", "joined"}
    /\ AllJoined
    /\ st' = "returned"
    /\ UNCHANGED <<transferVars, workerVars, mode, handles, jobVars, result, singleVars>>

\* The join results of the tasks that ended normally, in handle order.
OkResults == [l \in 1..Len(handles) |->
                IF handles[l].pc = "panicked" THEN <<>> ELSE handles[l].res]

\* Variant of ReturnCollected that skips the Err join results.
ReturnCollectedSkipErr ==
    /\ st = "running" /\ mode \in Collecting
    /\ AllJoined
    /\ st' = "returned"
    /\ result' = Flatten(OkResults)
    /\ UNCHANGED <<transferVars, workerVars, mode, handles, jobVars, singleVars>>

\* The collecting methods: every join result is unwrapped, then flattened.
ReturnCollected ==
    /\ st = "running" /\ mode \in Collecting
    /\ AllJoined
    /\ IF \E l \in 1..Len(handles) : handles[l].pc = "panicked"
       THEN /\ st' = "panicked"
            /\ UNCHANGED result
       ELSE /\ st' = "returned"
            /\ result' = Flatten(JoinResults)
    /\ UNCHANGED <<transferVars, workerVars, mode, handles, jobVars, singleVars>>

----------------------------------------------------------------------------
(* run_single_threaded: everything runs on the caller's task.              *)

BatchArgs == {BatchNone} \cup {BatchSome(x) : x \in 0..MaxBatch}

\* worker.rs:38-56: the code up to the first await.  With more jobs than
\* batch_size and batch_size = 0, `fut_count % batch_size` panics.
run_single_threaded ==
    /\ st = "idle"
    /\ \E opt \in BatchArgs :
          LET b == BatchSize(opt, cnt)
              flat == Flatten(fut)
          IN  /\ batch_size' = opt
              /\ mode' = "single"
              /\ IF RemainderPanics(Len(flat), b)
                 THEN /\ st' = "panicked"
                      /\ UNCHANGED chunks
                 ELSE /\ st' = "running"
                      /\ chunks' = Chunks(flat, b)
    /\ UNCHANGED <<transferVars, workerVars, handles, jobVars, result, cidx, cpos>>

\* The chunk the loop `for jobs in chunks` is at.
CurrentChunk == chunks[cidx + 1]

\* The job of the current chunk that the first poll of join_all polls next.
CurrentChunkJob == CurrentChunk[cpos + 1]

\* One step of the first poll of join_all(jobs): it polls the jobs of the
\* chunk one after the other, in chunk order.  The job polled suspends, or
\* returns, or panics: the panic unwinds the caller and the jobs behind it
\* are never polled.
StartChunk ==
    /\ st = "running" /\ mode = "single"
    /\ cidx < Len(chunks)
    /\ cpos < Len(CurrentChunk)
    /\ started' = started \cup {CurrentChunkJob}
    /\ nstart' = Starts(nstart, {CurrentChunkJob})
    /\ \/ /\ cpos' = cpos + 1
          /\ UNCHANGED <<st, completed, faulted>>
       \/ /\ completed' = completed \cup {CurrentChunkJob}
          /\ cpos' = cpos + 1
          /\ UNCHANGED <<st, faulted>>
       \/ /\ faulted' = faulted \cup {CurrentChunkJob}
          /\ st' = "panicked"
          /\ UNCHANGED <<completed, cpos>>
    /\ UNCHANGED <<transferVars, workerVars, mode, handles, result,
                   batch_size, chunks, cidx>>

\* A later poll of join_all(jobs): a job of the chunk that had suspended
\* returns.
CompleteChunkJob ==
    /\ st = "running" /\ mode = "single"
    /\ cidx < Len(chunks)
    /\ cpos = Len(CurrentChunk)
    /\ \E job \in LaneJobs(CurrentChunk) \ completed :
          completed' = completed \cup {job}
    /\ UNCHANGED <<transferVars, st, workerVars, mode, handles, started, nstart, faulted, result,
                   singleVars>>

\* A later poll of join_all(jobs): a job of the chunk that had suspended
\* panics; the panic unwinds the caller.
FaultChunkJob ==
    /\ st = "running" /\ mode = "single"
    /\ cidx < Len(chunks)
    /\ cpos = Len(CurrentChunk)
    /\ \E job \in LaneJobs(CurrentChunk) \ completed :
          faulted' = faulted \cup {job}
    /\ st' = "panicked"
    /\ UNCHANGED <<transferVars, workerVars, mode, handles, started, nstart, completed, result,
                   singleVars>>

\* Variant of ChunkJoined that is ready as soon as one job has returned.
ChunkJoinedAny(jobs) ==
    jobs = <<>> \/ LaneJobs(jobs) \cap completed # {}

\* join_all(jobs) of a chunk is ready: every job of the chunk has been
\* polled and has returned.
ChunkJoined(jobs) == LaneJobs(jobs) \subseteq completed

\* `join_all(jobs).await` returns; the loop moves to the next chunk.
FinishChunk ==
    /\ st = "running" /\ mode = "single"
    /\ cidx < Len(chunks)
    /\ cpos = Len(CurrentChunk)
    /\ ChunkJoined(CurrentChunk)
    /\ cidx' = cidx + 1
    /\ cpos' = 0
    /\ UNCHANGED <<transferVars, st, workerVars, mode, handles, jobVars, result,
                   batch_size, chunks>>

\* The loop has run out of chunks: run_single_threaded returns.
ReturnSingle ==
    /\ st = "running" /\ mode = "single"
    /\ cidx = Len(chunks)
    /\ st' = "returned"
    /\ UNCHANGED <<transferVars, workerVars, mode, handles, jobVars, result, singleVars>>

Lanes == 1..MaxLanes

Next ==
    \/ new
    \/ WithBatches
    \/ push
    \/ run
    \/ run_and_collect_results
    \/ run_all_joined
    \/ run_all_joined_and_collect_results
    \/ Spawn
    \/ \E l \in Lanes : StartJob(l)
    \/ \E l \in Lanes : CompleteJob(l)
    \/ \E l \in Lanes : FaultJob(l)
    \/ \E l \in Lanes : FinishLane(l)
    \/ \E l \in Lanes : JoinAll(l)
    \/ \E l \in Lanes : StartAll(l)
    \/ \E l \in Lanes : CompleteJoined(l)
    \/ \E l \in Lanes : FaultJoined(l)
    \/ \E l \in Lanes : FinishJoined(l)
    \/ ReturnUnit
    \/ ReturnCollected
    \/ run_single_threaded
    \/ StartChunk
    \/ CompleteChunkJob
    \/ FaultChunkJob
    \/ FinishChunk
    \/ ReturnSingle

Spec == Init /\ [][Next]_vars

\* The steps that wait for no job: the runtime runs every spawned task and
\* the caller's task, so each of them happens once it can.
SchedulerStep ==
    \/ Spawn
    \/ \E l \in Lanes : StartJob(l)
    \/ \E l \in Lanes : FinishLane(l)
    \/ \E l \in Lanes : JoinAll(l)
    \/ \E l \in Lanes : StartAll(l)
    \/ \E l \in Lanes : FinishJoined(l)
    \/ ReturnUnit
    \/ ReturnCollected
    \/ StartChunk
    \/ FinishChunk
    \/ ReturnSingle

FairSpec == Spec /\ WF_vars(SchedulerStep)

----------------------------------------------------------------------------
(* The job that test_batched_sols_transfer pushes for one transfer         *)
(* (app/src/cmd.rs:202-239), taken on its own: every RPC call is an await  *)
(* that yields Ok or Err.                                                  *)

\* The job as pushed: nothing awaited yet, `lamports` captured.
TransferInit ==
    /\ st = "none"
    /\ cnt = 0
    /\ fut = <<>>
    /\ npush = 0
    /\ mode = "none"
    /\ handles = <<>>
    /\ started = {}
    /\ completed = {}
    /\ faulted = {}
    /\ nstart = [j \in {} |-> 0]
    /\ result = <<>>
    /\ batch_size = BatchNone
    /\ chunks = <<>>
    /\ cidx = 0
    /\ cpos = 0
    /\ tpc = "balance"
    /\ lamports \in 0..MaxLamports
    /\ sender_balance = 0
    /\ calls = <<>>
    /\ printed = <<>>

\* An RPC call and whether it returned Ok.
Call(rpc, ok) == [rpc |-> rpc, ok |-> ok]

\* `Err(ref e) => return print_error(e)`.
ReturnError ==
    /\ printed' = Append(printed, "error")
    /\ tpc' = "done"

\* What the job does when the amount exceeds the balance (cmd.rs:211-216):
\* it prints the message and goes on.
AfterBalance(amount, balance) ==
    /\ printed' = IF amount > balance
                  THEN Append(printed, "insufficient balance")
                  ELSE printed
    /\ tpc' = "blockhash"

\* cmd.rs:208-216 -- client.get_balance(&from_pk) and the balance test.
GetBalance ==
    /\ tpc = "balance"
    /\ \/ /\ calls' = Append(calls, Call("get_balance", FALSE))
          /\ ReturnError
          /\ UNCHANGED sender_balance
       \/ \E balance \in 0..MaxLamports :
             /\ calls' = Append(calls, Call("get_balance", TRUE))
             /\ sender_balance' = balance
             /\ AfterBalance(lamports, balance)
    /\ UNCHANGED <<schedulerVars, lamports>>

\* cmd.rs:217-219 -- client.get_latest_blockhash().
GetLatestBlockhash ==
    /\ tpc = "blockhash"
    /\ \/ /\ calls' = Append(calls, Call("get_latest_blockhash", FALSE))
          /\ ReturnError
       \/ /\ calls' = Append(calls, Call("get_latest_blockhash", TRUE))
          /\ tpc' = "send"
          /\ UNCHANGED printed
    /\ UNCHANGED <<schedulerVars, lamports, sender_balance>>

\* cmd.rs:220-226 -- wallet::transfer_sol(..) submits the transaction.
TransferSol ==
    /\ tpc = "send"
    /\ \/ /\ calls' = Append(calls, Call("transfer_sol", FALSE))
          /\ ReturnError
       \/ /\ calls' = Append(calls, Call("transfer_sol", TRUE))
          /\ printed' = Append(printed, "transferred")
          /\ tpc' = "confirmed"
    /\ UNCHANGED <<schedulerVars, lamports, sender_balance>>

\* Variant of PollConfirmed that reports the error and goes on.
PollConfirmedNoReturn ==
    /\ tpc = "confirmed"
    /\ \/ /\ calls' = Append(calls, Call("poll_confirmed", FALSE))
          /\ printed' = Append(printed, "error")
          /\ tpc' = "finalized"
       \/ /\ calls' = Append(calls, Call("poll_confirmed", TRUE))
          /\ printed' = Append(printed, "confirmed")
          /\ tpc' = "finalized"
    /\ UNCHANGED <<schedulerVars, lamports, sender_balance>>

\* cmd.rs:228-232 -- poll_for_signature_with_commitment(.., confirmed()).
PollConfirmed ==
    /\ tpc = "confirmed"
    /\ \/ /\ calls' = Append(calls, Call("poll_confirmed", FALSE))
          /\ ReturnError
       \/ /\ calls' = Append(calls, Call("poll_confirmed", TRUE))
          /\ printed' = Append(printed, "confirmed")
          /\ tpc' = "finalized"
    /\ UNCHANGED <<schedulerVars, lamports, sender_balance>>

\* cmd.rs:234-238 -- poll_for_signature_with_commitment(.., finalized()).
PollFinalized ==
    /\ tpc = "finalized"
    /\ \/ /\ calls' = Append(calls, Call("poll_finalized", FALSE))
          /\ ReturnError
       \/ /\ calls' = Append(calls, Call("poll_finalized", TRUE))
          /\ printed' = Append(printed, "finalized")
          /\ tpc' = "done"
    /\ UNCHANGED <<schedulerVars, lamports, sender_balance>>

TransferNext ==
    \/ GetBalance
    \/ GetLatestBlockhash
    \/ TransferSol
    \/ PollConfirmed
    \/ PollFinalized

TransferSpec == TransferInit /\ [][TransferNext]_vars

----------------------------------------------------------------------------
(* Properties *)

\* All jobs pushed so far, by global push index.
Pushed == 0..(npush - 1)

\* A worker exists (a constructor has returned).
Constructed == st \in {"idle", "running", "returned"}

\* Jobs polled but neither returned nor panicked.
InFlight == started \ (completed \cup faulted)

RECURSIVE SumLen(_)
\* Total number of elements of a sequence of sequences.
SumLen(ss) == IF ss = <<>> THEN 0 ELSE Len(Head(ss)) + SumLen(Tail(ss))

\* Number of jobs stored in the lanes before lane l.
Offset(l) == SumLen(SubSeq(fut, 1, l - 1))

\* C1: with lane count L >= 1, the job with 0-based global push index i is
\* stored in lane i mod L.
C1_RoundRobin ==
    (Constructed /\ cnt >= 1) =>
        \A i \in Pushed : i \in LaneJobs(fut[(i % cnt) + 1])

\* C2: with_batches(0) fails at construction, so no worker with a lane count
\* of zero ever exists.
C2_NoZeroLaneWorker == Constructed => cnt >= 1

\* C3: push never fails: on every worker a constructor returned, push
\* completes normally and appends the job to exactly one lane.
C3_PushNeverFails ==
    [][push => /\ st' = "idle"
               /\ \E l \in 1..Len(fut) :
                     /\ fut'[l] = Append(fut[l], npush)
                     /\ \A m \in (1..Len(fut)) \ {l} : fut'[m] = fut[m]]_vars

\* C4: after any sequence of pushes on a worker with L >= 1 lanes there are
\* still L lanes, the lane sizes sum to the number of jobs pushed, and every
\* pushed job is stored in exactly one place.
C4_NoJobLostOrDuplicated ==
    (Constructed /\ cnt >= 1) =>
        /\ Len(fut) = cnt
        /\ SumLen(fut) = npush
        /\ \A i \in Pushed :
              Cardinality({<<l, k>> \in (1..Len(fut)) \X (1..npush) :
                              k <= Len(fut[l]) /\ fut[l][k] = i}) = 1

C4_Witness ==
    /\ st = "idle" /\ cnt >= 2 /\ npush >= 3

\* C5: of two jobs stored in the same lane, the one pushed earlier sits
\* before the one pushed later.
C5_LaneOrderIsPushOrder ==
    Constructed =>
        \A l \in 1..Len(fut) : \A k1, k2 \in 1..Len(fut[l]) :
            k1 < k2 => fut[l][k1] < fut[l][k2]

C5_Witness ==
    /\ st = "idle"
    /\ \E l \in 1..Len(fut) : Len(fut[l]) >= 3

\* C6: when no job panics, run() and run_all_joined() return only after
\* every pushed job has completed.
C6_ReturnAfterAllCompleted ==
    (st = "returned" /\ mode \in {"run", "joined"} /\ faulted = {}) =>
        completed = Pushed

C6_Witness ==
    /\ st = "returned" /\ mode = "joined" /\ faulted = {}
    /\ cnt >= 2 /\ npush >= 3 /\ completed = Pushed

\* C7: under run() and run_and_collect_results() a job of a lane is started
\* only after every earlier job of that lane has completed, and at most one
\* job per lane is in flight.
C7_SequentialInLane ==
    (mode \in Sequential) =>
        \A l \in 1..Len(fut) :
            /\ Cardinality(LaneJobs(fut[l]) \cap InFlight) <= 1
            /\ \A k1, k2 \in 1..Len(fut[l]) :
                  (k1 < k2 /\ fut[l][k2] \in started) => fut[l][k1] \in completed

C7_Witness ==
    /\ mode \in Sequential
    /\ \E l \in 1..Len(fut) :
          /\ Len(fut[l]) >= 3
          /\ fut[l][2] \in InFlight
          /\ fut[l][1] \in completed
          /\ fut[l][3] \notin started

\* C8: when no job panics, both collecting run methods return exactly N
\* outputs, the output of every pushed job exactly once.
C8_CollectsEveryOutputOnce ==
    (st = "returned" /\ mode \in Collecting /\ faulted = {}) =>
        /\ Len(result) = npush
        /\ \A j \in Pushed :
              Cardinality({k \in 1..Len(result) : result[k] = Output(j)}) = 1

C8_Witness ==
    /\ st = "returned" /\ mode = "joined_collect" /\ faulted = {}
    /\ cnt >= 2 /\ npush >= 3 /\ Len(result) = npush

\* C9: run_and_collect_results() returns lane 0's outputs, then lane 1's,
\* and so on, each lane's outputs in that lane's push order, whichever lane
\* finished first.
C9_LaneMajorResult ==
    (st = "returned" /\ mode = "collect") =>
        /\ Len(result) = SumLen(fut)
        /\ \A l \in 1..Len(fut) : \A k \in 1..Len(fut[l]) :
              result[Offset(l) + k] = Output(fut[l][k])

C9_Witness ==
    /\ st = "returned" /\ mode = "collect"
    /\ cnt >= 2 /\ npush >= 3 /\ Len(result) = npush

\* C10: with 3 lanes and 7 jobs whose outputs are their push indices, the
\* lanes after pushing are [{0,3,6},{1,4},{2,5}] and
\* run_and_collect_results() returns [0,3,6,1,4,2].
C10_Example ==
    (Constructed /\ cnt = 3 /\ npush = 7) =>
        /\ fut = << <<0, 3, 6>>, <<1, 4>>, <<2, 5>> >>
        /\ (st = "returned" /\ mode = "collect")
              => result = <<0, 3, 6, 1, 4, 2>>

\* The outputs of all pushed jobs in global push order.
PushOrderOutputs == [k \in 1..npush |-> Output(k - 1)]

\* C11: with more than one lane and at least two jobs pushed, the sequence
\* returned by a collecting run method is not the global push order.
C11_NotPushOrder ==
    (st = "returned" /\ mode \in Collecting /\ cnt > 1 /\ npush >= 2) =>
        result # PushOrderOutputs

\* C12: under run_all_joined() and run_all_joined_and_collect_results() the
\* jobs of a lane are launched together: no job of a lane waits for the
\* completion of another job of the lane before it starts.  While the lane's
\* join_all is awaited and some job of the lane has not been started, the
\* start of the next job is possible at once, whatever has completed so
\* far; jobs start in lane order; and a lane task that ended normally has
\* started every job of its lane.
C12_LaneLaunchedTogether ==
    (mode \in Joined) =>
        \A l \in 1..Len(handles) :
            /\ (st = "running" /\ handles[l].pc = "joining"
                    /\ ~(LaneJobs(fut[l]) \subseteq started))
                  => ENABLED StartAll(l)
            /\ \A k1, k2 \in 1..Len(fut[l]) :
                  (k1 < k2 /\ fut[l][k2] \in started) => fut[l][k1] \in started
            /\ (handles[l].pc = "finished") => LaneJobs(fut[l]) \subseteq started

\* Every job of a three-job lane has been launched, all three were in
\* flight together and the last one pushed has completed first.
C12_Witness ==
    /\ mode \in Joined
    /\ \E l \in 1..Len(fut) :
          /\ Len(fut[l]) = 3
          /\ LaneJobs(fut[l]) \subseteq started
          /\ fut[l][3] \in completed
          /\ {fut[l][1], fut[l][2]} \subseteq InFlight

\* C13: for every interleaving of job completions, join_all keeps each
\* output in the slot of its job, and run_all_joined_and_collect_results()
\* returns each lane's outputs in push order, lanes in increasing index.
C13_JoinedResultInLaunchOrder ==
    (mode = "joined_collect") =>
        /\ \A l \in 1..Len(handles) : \A k \in 1..Len(fut[l]) :
              (handles[l].pc = "joining" /\ handles[l].res[k].done)
                  => handles[l].res[k].out = Output(fut[l][k])
        /\ (st = "returned") =>
              /\ Len(result) = SumLen(fut)
              /\ \A l \in 1..Len(fut) : \A k \in 1..Len(fut[l]) :
                    result[Offset(l) + k] = Output(fut[l][k])

\* The job pushed third has completed before the two pushed ahead of it,
\* and its output sits in the third slot.
C13_Witness ==
    /\ mode = "joined_collect"
    /\ \E l \in 1..Len(handles) :
          /\ handles[l].pc = "joining"
          /\ Len(fut[l]) >= 3
          /\ handles[l].res[3].done
          /\ ~handles[l].res[1].done
          /\ ~handles[l].res[2].done

\* The batch size run_single_threaded was called with, None standing for
\* the lane count.
GivenBatch == IF batch_size.some THEN batch_size.x ELSE cnt

\* run_single_threaded got past its chunking code.
SingleEntered == mode = "single" /\ st \in {"running", "returned"}

\* The least c with c * b >= n, for b >= 1.
Ceil(n, b) == CHOOSE c \in 0..n : c * b >= n /\ (c - 1) * b < n

\* C14: run_single_threaded(b) with N > b >= 1 jobs makes exactly
\* ceil(N / b) chunks and puts the job at flattened index i into chunk
\* i mod ceil(N / b), in increasing i; b = 2, N = 5 gives {0,3}, {1,4}, {2}.
C14_RoundRobinChunks ==
    (SingleEntered /\ GivenBatch >= 1 /\ npush > GivenBatch) =>
        LET flat == Flatten(fut)
            count == Ceil(npush, GivenBatch)
        IN  /\ Len(chunks) = count
            /\ SumLen(chunks) = npush
            /\ \A i \in 0..(npush - 1) :
                  /\ (i \div count) + 1 <= Len(chunks[(i % count) + 1])
                  /\ chunks[(i % count) + 1][(i \div count) + 1] = flat[i + 1]
            /\ (GivenBatch = 2 /\ npush = 5)
                  => chunks = << <<0, 3>>, <<1, 4>>, <<2>> >>

C14_Witness ==
    /\ SingleEntered /\ batch_size = BatchSome(2) /\ npush = 5
    /\ chunks = << <<0, 3>>, <<1, 4>>, <<2>> >>

\* C15: under run_single_threaded no job of a later chunk is started
\* before every job of each earlier chunk has completed, and the jobs of
\* one chunk are in flight together: while a chunk runs and one of its jobs
\* has not been started, the start of that chunk's next job is possible at
\* once, whatever has completed so far.
C15_ChunksInOrder ==
    (mode = "single") =>
        /\ \A c1, c2 \in 1..Len(chunks) :
              (c1 < c2 /\ LaneJobs(chunks[c2]) \cap started # {})
                  => LaneJobs(chunks[c1]) \subseteq completed
        /\ (st = "running" /\ cidx < Len(chunks)
                /\ ~(LaneJobs(CurrentChunk) \subseteq started))
              => ENABLED StartChunk

\* The second chunk runs with two jobs in flight together, the first chunk
\* being complete and the third not started.
C15_Witness ==
    /\ mode = "single" /\ Len(chunks) >= 3
    /\ LaneJobs(chunks[1]) \subseteq completed
    /\ Cardinality(LaneJobs(chunks[2]) \cap InFlight) >= 2
    /\ LaneJobs(chunks[3]) \cap started = {}

\* C16: for every batch size b >= 1 and every number of pushed jobs, at
\* most b jobs are in flight at once during run_single_threaded(Some(b)).
C16_InFlightBounded ==
    (mode = "single" /\ batch_size.some /\ batch_size.x >= 1) =>
        Cardinality(InFlight) <= batch_size.x

\* More jobs than the batch size were pushed and a full batch is in flight.
C16_Witness ==
    /\ mode = "single" /\ batch_size.some /\ batch_size.x >= 2
    /\ npush > 2 * batch_size.x
    /\ npush % batch_size.x # 0
    /\ Cardinality(InFlight) = batch_size.x

\* C17: the flattened job list of run_single_threaded is the global push
\* order: the job at flattened index i is the job pushed i-th.
C17_FlatIsPushOrder ==
    (Constructed /\ cnt >= 1) =>
        Flatten(fut) = [k \in 1..npush |-> k - 1]

C17_Witness ==
    /\ SingleEntered /\ cnt >= 2 /\ npush >= 3
    /\ Flatten(fut) = [k \in 1..npush |-> k - 1]

\* C18: run_single_threaded(None) takes the lane count as batch size, and
\* with N <= batch size all N jobs form one chunk that runs as a single
\* concurrent batch on the caller's task, no lane task being spawned: while
\* the call runs and a job has not been started, the start of the next job
\* is possible at once, and the call returns only with every job started.
C18_DefaultBatchSingleChunk ==
    SingleEntered =>
        /\ handles = <<>>
        /\ (npush <= GivenBatch) =>
              /\ chunks = <<Flatten(fut)>>
              /\ (st = "running" /\ started # Pushed) => ENABLED StartChunk
              /\ (st = "returned") => started = Pushed
        /\ (~batch_size.some /\ npush > cnt /\ cnt >= 1) =>
              Len(chunks) = Ceil(npush, cnt)

\* None was given, as many jobs as lanes were pushed and all are in flight.
C18_Witness ==
    /\ SingleEntered /\ ~batch_size.some
    /\ cnt >= 2 /\ npush = cnt
    /\ Len(chunks) = 1 /\ InFlight = Pushed

\* C19: with no job pushed on a worker with L >= 1 lanes, every run method
\* returns, no job is ever started and what a collecting method returns is
\* the empty sequence.
C19_ZeroJobsTerminate ==
    /\ [](npush = 0 => (started = {} /\ result = <<>>))
    /\ (st = "running" /\ npush = 0 /\ cnt >= 1) ~> (st = "returned")

C19_Witness ==
    /\ st = "returned" /\ mode = "collect"
    /\ npush = 0 /\ cnt >= 2 /\ result = <<>> /\ started = {}

\* C20: once a run method has been invoked nothing is pushed and no run
\* method is invoked again, a finished run stays finished, and jobs are
\* added only to an idle worker.
C20_SingleUse ==
    [][/\ (st \in {"running", "returned", "panicked"}) =>
              /\ fut' = fut /\ npush' = npush
              /\ mode' = mode /\ batch_size' = batch_size
              /\ st' \in {"running", "returned", "panicked"}
       /\ (st \in {"returned", "panicked"}) => st' = st
       /\ (npush' # npush) => (st = "idle" /\ st' = "idle")]_vars

C20_Witness ==
    /\ st = "returned" /\ mode = "run" /\ npush >= 2

\* C21: under every run method a pushed job is started at most once, and
\* when no job panics and the run method has returned every pushed job has
\* been started exactly once.
C21_StartedOnce ==
    /\ DOMAIN nstart \subseteq Pushed
    /\ \A j \in DOMAIN nstart : nstart[j] = 1
    /\ (st = "returned" /\ faulted = {}) => DOMAIN nstart = Pushed

C21_Witness ==
    /\ st = "returned" /\ faulted = {} /\ mode = "single"
    /\ cnt >= 2 /\ npush >= 3
    /\ \A j \in Pushed : nstart[j] = 1

\* C22: with L >= 2 lanes and at least two jobs pushed, run() has the jobs
\* in more than one lane (so that jobs of different lanes can be in flight
\* at the same time).
C22_JobsOverSeveralLanes ==
    (mode = "run" /\ cnt >= 2 /\ npush >= 2) =>
        \E l1, l2 \in 1..Len(fut) :
            l1 # l2 /\ fut[l1] # <<>> /\ fut[l2] # <<>>

\* C23: under run(), once a job has panicked no job behind it in the same
\* lane is ever started.
C23_FaultAbortsLane ==
    (mode = "run") =>
        \A l \in 1..Len(fut) : \A k1, k2 \in 1..Len(fut[l]) :
            (k1 < k2 /\ fut[l][k1] \in faulted) => fut[l][k2] \notin started

\* run() is over, the second job of a lane panicked after the first one
\* completed and the third one was never started.
C23_Witness ==
    /\ mode = "run" /\ st = "returned"
    /\ \E l \in 1..Len(fut) :
          /\ Len(fut[l]) >= 3
          /\ fut[l][1] \in completed
          /\ fut[l][2] \in faulted
          /\ fut[l][3] \notin started

\* C24: under run(), a job that panicked is surfaced to the caller: run()
\* does not return normally when a lane faulted.
C24_FaultSurfaced ==
    (mode = "run" /\ faulted # {}) => st # "returned"

\* C25: under the collecting run methods, when a lane faulted the call
\* fails and the caller gets no output at all.
C25_FaultFailsCollect ==
    (mode \in Collecting /\ faulted # {}) =>
        /\ st # "returned"
        /\ result = <<>>

\* A collecting call has failed on a faulted lane although a job had
\* completed and another lane had ended normally.
C25_Witness ==
    /\ mode \in Collecting /\ st = "panicked"
    /\ faulted # {} /\ completed # {}
    /\ \E l \in 1..Len(handles) : handles[l].pc = "finished"

\* C26: under the four lane-spawning run methods the call ends, normally
\* or by the unwrap of a faulted lane, only after every lane task has
\* ended, and every lane without a faulted job of its own has then run all
\* its jobs to completion.
C26_FaultLeavesOtherLanes ==
    (mode \in Sequential \cup Joined /\ st \in {"returned", "panicked"}) =>
        /\ Len(handles) = Len(fut)
        /\ \A l \in 1..Len(handles) :
              /\ handles[l].pc \in {"finished", "panicked"}
              /\ (LaneJobs(fut[l]) \cap faulted = {}) =>
                    /\ handles[l].pc = "finished"
                    /\ LaneJobs(fut[l]) \subseteq completed

\* A collecting call has failed; one lane faulted, two others ended normally.
C26_Witness ==
    /\ mode = "joined_collect" /\ st = "panicked" /\ cnt >= 3
    /\ Cardinality({l \in 1..Len(handles) : handles[l].pc = "panicked"}) = 1
    /\ Cardinality({l \in 1..Len(handles) : handles[l].pc = "finished"}) >= 2

\* C27: when run_single_threaded(b) chunks N > b >= 1 jobs, no chunk is
\* empty and the sizes of two chunks differ by at most one.
C27_BalancedChunks ==
    (SingleEntered /\ GivenBatch >= 1 /\ npush > GivenBatch) =>
        \A c1, c2 \in 1..Len(chunks) :
            /\ Len(chunks[c1]) >= 1
            /\ Len(chunks[c1]) - Len(chunks[c2]) <= 1

\* Seven jobs with batch size 3: chunks of 3, 2 and 2 jobs.
C27_Witness ==
    /\ SingleEntered /\ batch_size = BatchSome(3) /\ npush = 7
    /\ Len(chunks) = 3
    /\ Len(chunks[1]) = 3 /\ Len(chunks[2]) = 2 /\ Len(chunks[3]) = 2

\* C28: run_single_threaded(Some(0)) with at least one job pushed panics
\* before any job is started; with no job pushed it does not panic and
\* returns.
C28_ZeroBatch ==
    /\ [](  (mode = "single" /\ batch_size = BatchSome(0))
            => /\ (npush >= 1) => (st = "panicked" /\ started = {})
               /\ (npush = 0) => (st # "panicked" /\ started = {}))
    /\ (mode = "single" /\ batch_size = BatchSome(0) /\ npush = 0)
           ~> (st = "returned")

C28_Witness ==
    /\ mode = "single" /\ batch_size = BatchSome(0)
    /\ npush >= 2 /\ st = "panicked" /\ started = {}

\* The order of the RPC calls of a transfer job.
RpcOrder ==
    <<"get_balance", "get_latest_blockhash", "transfer_sol",
      "poll_confirmed", "poll_finalized">>

\* C29: a transfer job makes its RPC calls in the order balance, blockhash,
\* transfer, confirmed poll, finalized poll; a call that returns an error is
\* the last call the job makes, and the job then ends having reported it.
C29_TransferStepsInOrder ==
    /\ Len(calls) <= Len(RpcOrder)
    /\ \A i \in 1..Len(calls) :
          /\ calls[i].rpc = RpcOrder[i]
          /\ (i < Len(calls)) => calls[i].ok
    /\ (calls # <<>> /\ ~calls[Len(calls)].ok) =>
          /\ tpc = "done"
          /\ printed # <<>> /\ printed[Len(printed)] = "error"

\* The confirmed poll failed after a successful transfer: the job is over
\* and no finalized poll was made.
C29_Witness ==
    /\ tpc = "done" /\ Len(calls) = 4
    /\ calls[3] = Call("transfer_sol", TRUE)
    /\ calls[4] = Call("poll_confirmed", FALSE)

\* C30: when the amount exceeds the balance the sender has, the job
\* reports 'insufficient balance' and does not submit the transfer.
C30_NoTransferWhenInsufficient ==
    (calls # <<>> /\ calls[1].ok /\ lamports > sender_balance) =>
        /\ \E i \in 1..Len(printed) : printed[i] = "insufficient balance"
        /\ \A i \in 1..Len(calls) : calls[i].rpc # "transfer_sol"
====
